---- MODULE Spec2Model ----
(***************************************************************************)
(* Model of distribution/build.py: main runs four steps in sequence        *)
(* (check_llama_installed, check_llama_stack_version, get_dependencies,    *)
(* generate_containerfile).  Text is modelled character by character: a    *)
(* Python str is a sequence of one-character strings, compared by code     *)
(* point as Python compares it.                                            *)
(***************************************************************************)
EXTENDS Integers, Sequences, FiniteSets, TLC

VARIABLES
  pc,             \* the step main is about to run
  exit_code,      \* the status the process ended with, -1 while it runs
  steps,          \* what each step that ran found, in order
  stdout,         \* result.stdout of the listing command
  todo,           \* the lines the loop has still to read
  line,           \* the loop variable
  parts,          \* locals of the loop body
  packages,
  full_cmd,
  emitted,        \* the append of the latest pass: the list and the text
  standard_deps,  \* the four lists
  torch_deps,
  no_deps,
  no_cache,
  all_deps,
  dependencies,   \* the text get_dependencies returned
  containerfile   \* the content of distribution/Containerfile

vars == <<pc, exit_code, steps, stdout, todo, line, parts, packages, full_cmd,
          emitted, standard_deps, torch_deps, no_deps, no_cache, all_deps,
          dependencies, containerfile>>

(***************************************************************************)
(* Python str operations                                                   *)
(***************************************************************************)

\* ord(c) for the characters that occur in the modelled texts
Ord ==
  "\t" :> 9 @@ "\n" :> 10 @@ " " :> 32 @@ "'" :> 39 @@ "-" :> 45 @@
  "." :> 46 @@ "/" :> 47 @@ "0" :> 48 @@ "1" :> 49 @@ "2" :> 50 @@
  "3" :> 51 @@ ":" :> 58 @@ "=" :> 61 @@ ">" :> 62 @@ "I" :> 73 @@
  "N" :> 78 @@ "P" :> 80 @@ "R" :> 82 @@ "U" :> 85 @@ "\\" :> 92 @@
  "a" :> 97 @@ "c" :> 99 @@ "d" :> 100 @@ "e" :> 101 @@ "g" :> 103 @@
  "h" :> 104 @@ "i" :> 105 @@ "k" :> 107 @@ "l" :> 108 @@ "m" :> 109 @@
  "n" :> 110 @@ "o" :> 111 @@ "p" :> 112 @@ "r" :> 114 @@ "s" :> 115 @@
  "t" :> 116 @@ "u" :> 117 @@ "v" :> 118 @@ "w" :> 119 @@ "x" :> 120 @@
  "y" :> 121

\* the characters str.strip() and str.split() treat as whitespace
Whitespace == {" ", "\t", "\n"}

Range(s) == {s[i] : i \in DOMAIN s}

Drop(s, n) == SubSeq(s, n + 1, Len(s))

\* s.startswith(p)
StartsWith(s, p) == Len(s) >= Len(p) /\ SubSeq(s, 1, Len(p)) = p

\* p occurs in s at position i (p is not empty)
OccursAt(s, p, i) == s[i] = p[1] /\ SubSeq(s, i, i + Len(p) - 1) = p

\* p in s
Contains(s, p) == \E i \in 1..(Len(s) - Len(p) + 1) : OccursAt(s, p, i)

\* s.find(p) + 1: the first position where p occurs in s, 0 when there is none
Find(s, p) ==
  IF Contains(s, p)
    THEN CHOOSE i \in 1..(Len(s) - Len(p) + 1) :
           OccursAt(s, p, i) /\ \A j \in 1..(i - 1) : ~OccursAt(s, p, j)
    ELSE 0

\* s.replace(old, new, 1)
ReplaceFirst(s, old, new) ==
  LET i == Find(s, old)
  IN  IF i = 0 THEN s ELSE SubSeq(s, 1, i - 1) \o new \o Drop(s, i + Len(old) - 1)

RECURSIVE LStrip(_)
LStrip(s) == IF s # <<>> /\ Head(s) \in Whitespace THEN LStrip(Tail(s)) ELSE s

RECURSIVE RStrip(_)
\* s.rstrip()
RStrip(s) ==
  IF s # <<>> /\ s[Len(s)] \in Whitespace THEN RStrip(SubSeq(s, 1, Len(s) - 1)) ELSE s

\* s.strip()
Strip(s) == RStrip(LStrip(s))

RECURSIVE SplitSpace(_, _)
\* s.split(" ", n): cut at single spaces, at most n times; empty pieces are kept
SplitSpace(s, n) ==
  LET i == Find(s, <<" ">>)
  IN  IF n = 0 \/ i = 0 THEN <<s>>
      ELSE <<SubSeq(s, 1, i - 1)>> \o SplitSpace(Drop(s, i), n - 1)

RECURSIVE SplitWords(_)
\* s.split(): the maximal runs of non-whitespace characters
SplitWords(s) ==
  LET t == LStrip(s)
      ends == {i \in 1..Len(t) : t[i] \in Whitespace}
      e == IF ends = {} THEN Len(t) + 1 ELSE CHOOSE i \in ends : \A j \in ends : i <= j
  IN  IF t = <<>> THEN <<>>
      ELSE <<SubSeq(t, 1, e - 1)>> \o SplitWords(Drop(t, e - 1))

RECURSIVE SplitLines(_)
\* s.splitlines(): cut at line breaks; a final line break adds no empty line
SplitLines(s) ==
  LET i == Find(s, <<"\n">>)
  IN  IF s = <<>> THEN <<>>
      ELSE IF i = 0 THEN <<s>>
      ELSE <<SubSeq(s, 1, i - 1)>> \o SplitLines(Drop(s, i))

RECURSIVE Join(_, _)
\* sep.join(ss)
Join(sep, ss) ==
  IF ss = <<>> THEN <<>>
  ELSE IF Len(ss) = 1 THEN ss[1]
  ELSE ss[1] \o sep \o Join(sep, Tail(ss))

\* a < b for str: the first differing code point decides, a proper prefix is less
StrLess(a, b) ==
  LET m == IF Len(a) < Len(b) THEN Len(a) ELSE Len(b)
      differ == {i \in 1..m : a[i] # b[i]}
      d == CHOOSE i \in differ : \A j \in differ : i <= j
  IN  IF differ = {} THEN Len(a) < Len(b) ELSE Ord[a[d]] < Ord[b[d]]

RECURSIVE Insert(_, _)
Insert(x, ss) ==
  IF ss = <<>> THEN <<x>>
  ELSE IF StrLess(x, Head(ss)) THEN <<x>> \o ss
  ELSE <<Head(ss)>> \o Insert(x, Tail(ss))

RECURSIVE SortedList(_)
\* sorted(ss) for a list of str
SortedList(ss) == IF ss = <<>> THEN <<>> ELSE Insert(Head(ss), SortedList(Tail(ss)))

RECURSIVE SortedSet(_)
\* sorted(set(ss)) once the set is taken: ascending, each element once
SortedSet(S) ==
  IF S = {} THEN <<>>
  ELSE LET m == CHOOSE x \in S : \A y \in S \ {x} : StrLess(x, y)
       IN  <<m>> \o SortedSet(S \ {m})

(***************************************************************************)
(* Texts of build.py                                                       *)
(***************************************************************************)

\* "uv pip"
UvPip == <<"u","v"," ","p","i","p">>

\* "uv "
Uv == <<"u","v"," ">>

\* "RUN "
Run == <<"R","U","N"," ">>

\* "--index-url"
IndexUrlFlag == <<"-","-","i","n","d","e","x","-","u","r","l">>

\* "--no-deps"
NoDepsFlag == <<"-","-","n","o","-","d","e","p","s">>

\* "--no-cache"
NoCacheFlag == <<"-","-","n","o","-","c","a","c","h","e">>

\* " \\\n    ": blank, backslash, line break, four blanks
Continuation == <<" ","\\","\n"," "," "," "," ">>

\* the version pinned by BASE_REQUIREMENTS
ExpectedVersion == "0.2.18"

\* distribution/Containerfile as long as the run has not written it
NotWritten == [mode |-> "not written", dependencies |-> <<>>]

(***************************************************************************)
(* Output of the dependency-listing command                                *)
(***************************************************************************)

MaxTokens == 2

MaxLines == 3

\* "uv pip install"
HeadInstall == UvPip \o <<" ","i","n","s","t","a","l","l">>

\* " uv pip install": the install prefix after one blank
HeadIndented == <<" ">> \o HeadInstall

\* "pip install": no uv
HeadPlain == <<"p","i","p"," ","i","n","s","t","a","l","l">>

Heads == {HeadInstall, HeadIndented, UvPip, HeadPlain}

\* "--extra-index-url"
ExtraIndexUrlFlag == <<"-","-","e","x","t","r","a","-","i","n","d","e","x","-","u","r","l">>

\* "https://download.pytorch.org/whl/cu121"
TorchUrl ==
  <<"h","t","t","p","s",":","/","/","d","o","w","n","l","o","a","d",".","p","y",
    "t","o","r","c","h",".","o","r","g","/","w","h","l","/","c","u","1","2","1">>

\* "'llama-stack-client==1.2.3'"
ClientPkg ==
  <<"'","l","l","a","m","a","-","s","t","a","c","k","-","c","l","i","e","n","t",
    "=","=","1",".","2",".","3","'">>

\* "'somepkg>=1.0'"
SomePkg == <<"'","s","o","m","e","p","k","g",">","=","1",".","0","'">>

\* "pillow"
PillowLower == <<"p","i","l","l","o","w">>

\* "Pillow"
PillowUpper == <<"P","i","l","l","o","w">>

\* "Installing dependencies": a line that is no install command
Notice ==
  <<"I","n","s","t","a","l","l","i","n","g"," ","d","e","p","e","n","d","e","n",
    "c","i","e","s">>

\* the tokens a payload is made of; the empty token stands for a doubled or
\* trailing blank
Tokens ==
  {<<>>, IndexUrlFlag, ExtraIndexUrlFlag, TorchUrl, NoDepsFlag, NoCacheFlag,
   ClientPkg, PillowLower, PillowUpper}

TokenSeqs(n) == UNION {[1..k -> Tokens] : k \in 0..n}

MkLine(head, tokens) == Join(<<" ">>, <<head>> \o tokens)

\* one directive of any shape
RichLines == {MkLine(h, ts) : h \in Heads, ts \in TokenSeqs(MaxTokens)}

\* directives of every category, two of them Standard, and a notice
OrderLines ==
  {MkLine(HeadInstall, <<PillowLower>>),
   MkLine(HeadInstall, <<PillowUpper, ClientPkg, PillowUpper>>),
   MkLine(HeadInstall, <<IndexUrlFlag, TorchUrl, PillowUpper>>),
   MkLine(HeadInstall, <<NoDepsFlag, ClientPkg>>),
   MkLine(HeadInstall, <<PillowLower, NoDepsFlag>>),
   MkLine(HeadInstall, <<NoCacheFlag, SomePkg>>),
   Notice}

RECURSIVE Text(_)
\* the command prints each line followed by a line break
Text(ls) == IF ls = <<>> THEN <<>> ELSE Head(ls) \o <<"\n">> \o Text(Tail(ls))

Outputs ==
  {Text(<<l>>) : l \in RichLines}
    \cup {Text(ls) : ls \in UNION {[1..k -> OrderLines] : k \in 0..MaxLines}}

(***************************************************************************)
(* get_dependencies: the rewriting of one line                             *)
(***************************************************************************)

\* line.strip().startswith("uv pip")
IsInstallLine(l) == StartsWith(Strip(l), UvPip)

\* line.replace("uv ", "RUN ", 1).split(" ", 3)
Parts(l) == SplitSpace(ReplaceFirst(l, Uv, Run), 3)

\* parts[:3]
CmdParts(p) == SubSeq(p, 1, 3)

\* sorted(parts[3].split()): the set is not taken
SortedPackagesWithRepeats(payload) == SortedList(SplitWords(payload))

\* sorted(set(parts[3].split()))
SortedPackages(payload) == SortedSet(Range(SplitWords(payload)))

\* the if/elif chain with "--no-cache" tested before "--no-deps"
CategoryNoCacheFirst(l) ==
  IF Contains(l, IndexUrlFlag) THEN "torch_deps"
  ELSE IF Contains(l, NoCacheFlag) THEN "no_cache"
  ELSE IF Contains(l, NoDepsFlag) THEN "no_deps"
  ELSE "standard_deps"

\* the list the if/elif chain picks for a line that has packages
Category(l) ==
  IF Contains(l, IndexUrlFlag) THEN "torch_deps"
  ELSE IF Contains(l, NoDepsFlag) THEN "no_deps"
  ELSE IF Contains(l, NoCacheFlag) THEN "no_cache"
  ELSE "standard_deps"

\* " ".join(cmd_parts + [" ".join(packages)])
OneLine(cmd_parts, pkgs) == Join(<<" ">>, cmd_parts \o <<Join(<<" ">>, pkgs)>>)

\* the packages joined by blanks after a single continuation
WrappedOnce(cmd_parts, pkgs) ==
  Join(<<" ">>, cmd_parts) \o Continuation \o Join(<<" ">>, pkgs)

\* f"{' '.join(cmd_parts)} \\\n    {formatted_packages}"
Wrapped(cmd_parts, pkgs) ==
  Join(<<" ">>, cmd_parts) \o Continuation \o Join(Continuation, pkgs)

\* a pass of the loop body that appends nothing
Nothing == [list |-> "none", text |-> <<>>]

\* what one pass of the loop body appends, and to which list
Appended(l) ==
  LET p == Parts(l)
      pkgs == SortedPackages(p[4])
      cat == Category(l)
  IN  IF ~IsInstallLine(l) THEN Nothing
      ELSE IF Len(p) < 4 THEN [list |-> "standard_deps", text |-> Join(<<" ">>, p)]
      ELSE IF cat = "standard_deps"
        THEN [list |-> cat, text |-> Wrapped(CmdParts(p), pkgs)]
        ELSE [list |-> cat, text |-> OneLine(CmdParts(p), pkgs)]

\* the four sorted lists with no_deps before torch_deps
CombinedNoDepsFirst(std, torch, nodeps, nocache) ==
  SortedList(std) \o SortedList(nodeps) \o SortedList(torch) \o SortedList(nocache)

\* the four lists, one after the other, as the loop filled them
CombinedUnsorted(std, torch, nodeps, nocache) == std \o torch \o nodeps \o nocache

\* the four sorted lists, one after the other
Combined(std, torch, nodeps, nocache) ==
  SortedList(std) \o SortedList(torch) \o SortedList(nodeps) \o SortedList(nocache)

RECURSIVE Passes(_)
\* what the passes of the loop over the lines ls append, in input order
Passes(ls) == IF ls = <<>> THEN <<>> ELSE <<Appended(Head(ls))>> \o Passes(Tail(ls))

RECURSIVE Collected(_, _)
\* the texts the passes as append to one list
Collected(as, list) ==
  IF as = <<>> THEN <<>>
  ELSE (IF Head(as).list = list THEN <<Head(as).text>> ELSE <<>>)
         \o Collected(Tail(as), list)

\* get_dependencies on a successful listing, as a function of its stdout
GetDependencies(out) ==
  LET as == Passes(SplitLines(out))
  IN  Join(<<"\n">>,
           Combined(Collected(as, "standard_deps"), Collected(as, "torch_deps"),
                    Collected(as, "no_deps"), Collected(as, "no_cache")))

(***************************************************************************)
(* main                                                                    *)
(***************************************************************************)

Init ==
  /\ pc = "check_llama_installed"
  /\ exit_code = -1
  /\ steps = <<>>
  /\ stdout = <<>>
  /\ todo = <<>>
  /\ line = <<>>
  /\ parts = <<>>
  /\ packages = <<>>
  /\ full_cmd = <<>>
  /\ emitted = Nothing
  /\ standard_deps = <<>>
  /\ torch_deps = <<>>
  /\ no_deps = <<>>
  /\ no_cache = <<>>
  /\ all_deps = <<>>
  /\ dependencies = <<>>
  /\ containerfile = NotWritten

\* sys.exit(1), or an exception nothing catches
Exit(step) ==
  /\ pc' = "exit"
  /\ exit_code' = 1
  /\ steps' = Append(steps, step)

CheckLlamaInstalled ==
  /\ pc = "check_llama_installed"
  /\ \E found \in BOOLEAN :
       IF found
         THEN /\ pc' = "check_llama_stack_version"
              /\ steps' = Append(steps, "llama found")
              /\ UNCHANGED exit_code
         ELSE Exit("llama not found")
  /\ UNCHANGED <<stdout, todo, line, parts, packages, full_cmd, emitted,
                 standard_deps, torch_deps, no_deps, no_cache, all_deps,
                 dependencies, containerfile>>

\* the installed version, or the failure of the version command
VersionResults == {"0.2.18", "0.2.17", "CalledProcessError"}

\* the version check with a mismatch only reported
CheckLlamaStackVersionWarnsOnly ==
  /\ pc = "check_llama_stack_version"
  /\ \E result \in VersionResults :
       /\ pc' = "get_dependencies"
       /\ steps' = Append(steps,
                          IF result = "CalledProcessError" THEN "version not checked"
                          ELSE IF result # ExpectedVersion THEN "version mismatch"
                          ELSE "version matches")
       /\ UNCHANGED exit_code
  /\ UNCHANGED <<stdout, todo, line, parts, packages, full_cmd, emitted,
                 standard_deps, torch_deps, no_deps, no_cache, all_deps,
                 dependencies, containerfile>>

CheckLlamaStackVersion ==
  /\ pc = "check_llama_stack_version"
  /\ \E result \in VersionResults :
       IF result = "CalledProcessError"
         THEN /\ pc' = "get_dependencies"
              /\ steps' = Append(steps, "version not checked")
              /\ UNCHANGED exit_code
         ELSE IF result # ExpectedVersion
           THEN Exit("version mismatch")
           ELSE /\ pc' = "get_dependencies"
                /\ steps' = Append(steps, "version matches")
                /\ UNCHANGED exit_code
  /\ UNCHANGED <<stdout, todo, line, parts, packages, full_cmd, emitted,
                 standard_deps, torch_deps, no_deps, no_cache, all_deps,
                 dependencies, containerfile>>

\* subprocess.run(..., check=True) and the four empty lists
RunListing ==
  /\ pc = "get_dependencies"
  /\ \/ /\ Exit("listing failed")
        /\ UNCHANGED <<stdout, todo>>
     \/ \E out \in Outputs :
          /\ stdout' = out
          /\ todo' = SplitLines(out)
          /\ pc' = "for line"
          /\ steps' = Append(steps, "listing succeeded")
          /\ UNCHANGED exit_code
  /\ UNCHANGED <<line, parts, packages, full_cmd, emitted, standard_deps,
                 torch_deps, no_deps, no_cache, all_deps, dependencies,
                 containerfile>>

\* one pass of the loop body
ProcessLine ==
  /\ pc = "for line"
  /\ todo # <<>>
  /\ LET l == Head(todo)
         a == Appended(l)
         accepted == IsInstallLine(l)
         rewritten == accepted /\ Len(Parts(l)) >= 4
     IN  /\ line' = l
         /\ todo' = Tail(todo)
         /\ parts' = IF accepted THEN Parts(l) ELSE parts
         /\ packages' = IF rewritten THEN SortedPackages(Parts(l)[4]) ELSE packages
         /\ full_cmd' = IF rewritten THEN a.text ELSE full_cmd
         /\ emitted' = a
         /\ standard_deps' =
              IF a.list = "standard_deps" THEN Append(standard_deps, a.text)
              ELSE standard_deps
         /\ torch_deps' =
              IF a.list = "torch_deps" THEN Append(torch_deps, a.text) ELSE torch_deps
         /\ no_deps' = IF a.list = "no_deps" THEN Append(no_deps, a.text) ELSE no_deps
         /\ no_cache' =
              IF a.list = "no_cache" THEN Append(no_cache, a.text) ELSE no_cache
  /\ UNCHANGED <<pc, exit_code, steps, stdout, all_deps, dependencies,
                 containerfile>>

\* all_deps and the returned text
Combine ==
  /\ pc = "for line"
  /\ todo = <<>>
  /\ all_deps' = Combined(standard_deps, torch_deps, no_deps, no_cache)
  /\ dependencies' = Join(<<"\n">>, all_deps')
  /\ pc' = "generate_containerfile"
  /\ UNCHANGED <<exit_code, steps, stdout, todo, line, parts, packages, full_cmd,
                 emitted, standard_deps, torch_deps, no_deps, no_cache,
                 containerfile>>

\* the mode the warning names
Mode(standalone, unified) ==
  IF unified THEN "unified" ELSE IF standalone THEN "standalone" ELSE "full"

\* the template file: absent, with a placeholder format() cannot fill, or usable
Templates == {"missing", "malformed", "usable"}

\* standalone and unified are the flags main parsed; nothing before this step
\* depends on them but the configuration file the listing command is given
GenerateContainerfile ==
  /\ pc = "generate_containerfile"
  /\ \E template \in Templates, standalone \in BOOLEAN, unified \in BOOLEAN :
       IF template = "missing"
         THEN /\ Exit("template not found")
              /\ UNCHANGED containerfile
         ELSE IF template = "malformed"
           THEN /\ pc' = "exit"
                /\ exit_code' = 1
                /\ steps' = steps \o <<"template found", "template not formatted">>
                /\ UNCHANGED containerfile
           ELSE /\ containerfile' = [mode |-> Mode(standalone, unified),
                                     dependencies |-> RStrip(dependencies)]
                /\ steps' = steps \o <<"template found", "containerfile written">>
                /\ pc' = "done"
                /\ exit_code' = 0
  /\ UNCHANGED <<stdout, todo, line, parts, packages, full_cmd, emitted,
                 standard_deps, torch_deps, no_deps, no_cache, all_deps,
                 dependencies>>

Next ==
  \/ CheckLlamaInstalled
  \/ CheckLlamaStackVersion
  \/ RunListing
  \/ ProcessLine
  \/ Combine
  \/ GenerateContainerfile

Spec == Init /\ [][Next]_vars

(***************************************************************************)
(* Properties                                                              *)
(***************************************************************************)

\* get_dependencies has returned
Returned == pc # "for line" /\ \E i \in DOMAIN steps : steps[i] = "listing succeeded"

\* the latest pass of the loop read an install line
Accepted == IsInstallLine(line)

\* the latest pass of the loop read an install line and split a payload off it
Rewritten == Accepted /\ Len(parts) >= 4

\* the place of a list in the fixed order, for an entry of all_deps
ListRank(e) ==
  IF e \in Range(standard_deps) THEN 1
  ELSE IF e \in Range(torch_deps) THEN 2
  ELSE IF e \in Range(no_deps) THEN 3
  ELSE IF e \in Range(no_cache) THEN 4
  ELSE 0

\* C1: the returned text is the entries of all_deps joined by line breaks, and
\* all_deps holds every entry of the four lists with the Standard entries
\* first, then the IndexURL, the NoDeps and the NoCache entries: no entry of a
\* later list stands before an entry of an earlier one.
GroupsInFixedOrder ==
  Returned =>
    /\ dependencies = Join(<<"\n">>, all_deps)
    /\ Len(all_deps) =
         Len(standard_deps) + Len(torch_deps) + Len(no_deps) + Len(no_cache)
    /\ \A i, j \in DOMAIN all_deps :
         i < j => 1 <= ListRank(all_deps[i]) /\ ListRank(all_deps[i]) <= ListRank(all_deps[j])

\* three of the four lists hold an entry, and the input had the NoCache line
\* first and a Standard line after it
GroupsInFixedOrderWitness ==
  /\ Returned
  /\ Cardinality({l \in {standard_deps, torch_deps, no_deps, no_cache} : l # <<>>}) >= 3
  /\ Contains(SplitLines(stdout)[1], NoCacheFlag)
  /\ no_cache # <<>>
  /\ standard_deps # <<>>
  /\ all_deps[1] = standard_deps[1]

\* a step that ends the run
Failures ==
  {"llama not found", "version mismatch", "listing failed", "template not found",
   "template not formatted"}

\* the function of main that reports an outcome
StepOf(outcome) ==
  IF outcome \in {"llama found", "llama not found"} THEN "check_llama_installed"
  ELSE IF outcome \in {"version matches", "version not checked", "version mismatch"}
    THEN "check_llama_stack_version"
  ELSE IF outcome \in {"listing succeeded", "listing failed"} THEN "get_dependencies"
  ELSE IF outcome \in {"template found", "template not found"} THEN "template"
  ELSE "generate_containerfile"

\* C7: the Containerfile is written only after the binary was found, the
\* version check found no mismatch, the listing command succeeded and the
\* template was found, in this order; once a step has failed the process has
\* ended with a nonzero status and the file is not written; no step runs twice.
WrittenOnlyAfterAllChecks ==
  /\ containerfile # NotWritten =>
       \E v \in {"version matches", "version not checked"} :
          steps = <<"llama found", v, "listing succeeded", "template found",
                    "containerfile written">>
  /\ (\E i \in DOMAIN steps : steps[i] \in Failures) =>
       /\ pc = "exit"
       /\ exit_code > 0
       /\ containerfile = NotWritten
       /\ steps[Len(steps)] \in Failures
  /\ \A i, j \in DOMAIN steps : i < j => StepOf(steps[i]) # StepOf(steps[j])

\* the run got as far as the template and failed there
WrittenOnlyAfterAllChecksWitness ==
  /\ pc = "exit"
  /\ steps = <<"llama found", "version not checked", "listing succeeded",
               "template not found">>
  /\ dependencies # <<>>
  /\ containerfile = NotWritten

\* the lines in another order
Reordered(ls, f) == [i \in DOMAIN ls |-> ls[f[i]]]

RECURSIVE Refilled(_, _)
\* the text s with its words replaced, in order, by the words ts
Refilled(s, ts) ==
  IF s = <<>> THEN <<>>
  ELSE IF Head(s) \in Whitespace THEN <<Head(s)>> \o Refilled(Tail(s), ts)
  ELSE Head(ts) \o Refilled(Drop(s, Len(SplitWords(s)[1])), Tail(ts))

\* a line with the tokens of its payload in another order, the blanks kept
PayloadOrders(l) ==
  LET p == SplitSpace(l, 3)
      ts == SplitWords(p[4])
  IN  IF Len(p) < 4 THEN {l}
      ELSE {Join(<<" ">>, SubSeq(p, 1, 3) \o <<Refilled(p[4], Reordered(ts, f))>>) :
              f \in Permutations(DOMAIN ts)}

\* C8: the text get_dependencies has just returned does not depend on the
\* order of the input: it is what get_dependencies returns for every
\* permutation of the lines of stdout, and for stdout with the payload tokens
\* of any one line permuted.
OrderIndependent ==
  pc = "generate_containerfile" =>
    LET ls == SplitLines(stdout)
    IN  /\ \A f \in Permutations(DOMAIN ls) :
             GetDependencies(Text(Reordered(ls, f))) = dependencies
        /\ \A k \in DOMAIN ls : \A l \in PayloadOrders(ls[k]) :
             GetDependencies(Text([ls EXCEPT ![k] = l])) = dependencies

\* two entries of one list arrived in descending order, and a payload arrived
\* unsorted
OrderIndependentWitness ==
  /\ pc = "generate_containerfile"
  /\ Len(standard_deps) >= 2
  /\ StrLess(standard_deps[2], standard_deps[1])
  /\ \E k \in DOMAIN SplitLines(stdout) :
       Cardinality(PayloadOrders(SplitLines(stdout)[k])) >= 2

\* the lines the loop has read so far
LinesRead == SubSeq(SplitLines(stdout), 1, Len(SplitLines(stdout)) - Len(todo))

\* the list of the state that a pass names
ListNamed(name) ==
  IF name = "standard_deps" THEN standard_deps
  ELSE IF name = "torch_deps" THEN torch_deps
  ELSE IF name = "no_deps" THEN no_deps
  ELSE no_cache

\* the group the flags of a line call for: IndexURL before NoDeps before
\* NoCache, Standard when the line has none of the three flags
GroupByPrecedence(l) ==
  IF Contains(l, IndexUrlFlag) THEN "torch_deps"
  ELSE IF Contains(l, NoDepsFlag) THEN "no_deps"
  ELSE IF Contains(l, NoCacheFlag) THEN "no_cache"
  ELSE "standard_deps"

\* every line read so far that is an install line has one entry in one list
OneEntryPerInstallLine ==
  /\ Len(standard_deps) + Len(torch_deps) + Len(no_deps) + Len(no_cache)
       = Cardinality({k \in DOMAIN LinesRead : IsInstallLine(LinesRead[k])})
  /\ Accepted =>
       /\ emitted.list \in {"standard_deps", "torch_deps", "no_deps", "no_cache"}
       /\ ListNamed(emitted.list) # <<>>
       /\ ListNamed(emitted.list)[Len(ListNamed(emitted.list))] = emitted.text

RunPipInstall == <<"R","U","N"," ","p","i","p"," ","i","n","s","t","a","l","l">>

\* C9: a line accepted as an install line yields an entry that begins with
\* "RUN pip install", the command tokens being RUN, pip and install and the
\* payload what followed them; a line that is not accepted yields nothing.
InstallPrefixMapped ==
  /\ Accepted =>
       /\ StartsWith(emitted.text, RunPipInstall)
       /\ Rewritten => CmdParts(parts) = SplitWords(RunPipInstall)
  /\ ~Accepted => emitted = Nothing

\* the maximal runs of characters of s that are not whitespace
Words(s) ==
  {SubSeq(s, i, CHOOSE j \in i..Len(s) :
                  /\ \A k \in i..j : s[k] \notin Whitespace
                  /\ j = Len(s) \/ s[j + 1] \in Whitespace) :
     i \in {k \in DOMAIN s : s[k] \notin Whitespace /\ (k = 1 \/ s[k - 1] \in Whitespace)}}

IsBackslash(w) == w = <<"\\">>

IsToken(w) == ~IsBackslash(w)

\* the payload tokens of the latest entry: its words but the continuation
\* marks, after the command tokens
EntryTokens ==
  Drop(SelectSeq(SplitWords(emitted.text), IsToken),
       Cardinality({i \in 1..3 : parts[i] # <<>>}))

LineBreaks(s) == Cardinality({i \in DOMAIN s : s[i] = "\n"})

\* the latest pass rewrote a Standard line whose payload is not empty
WrappedStandard == Rewritten /\ emitted.list = "standard_deps" /\ parts[4] # <<>>

\* the first line break of the latest entry follows the command tokens and
\* the continuation mark
BreakAfterCommand ==
  SplitLines(emitted.text)[1] = Join(<<" ">>, CmdParts(parts)) \o <<" ", "\\">>

\* C3 as stated: a rewritten Standard entry holds exactly one line break,
\* between the command tokens and the package list.
ExactlyOneLineBreak ==
  WrappedStandard => LineBreaks(emitted.text) = 1 /\ BreakAfterCommand

\* C3 as amended: a rewritten Standard entry holds one line break between the
\* command tokens and the package list and one more between every two
\* successive packages: as many line breaks as the payload has distinct
\* tokens, and one when it has none.
OneLineBreakPerPackage ==
  WrappedStandard =>
    /\ BreakAfterCommand
    /\ LineBreaks(emitted.text) =
         IF Words(parts[4]) = {} THEN 1 ELSE Cardinality(Words(parts[4]))

\* a Standard line with two distinct packages
OneLineBreakPerPackageWitness ==
  /\ WrappedStandard
  /\ Cardinality(Words(parts[4])) = 2
  /\ LineBreaks(emitted.text) = 2

\* C2: the line "uv pip install --no-deps 'llama-stack-client==1.2.3'" yields
\* a NoDeps entry on one line that contains
\* "--no-deps 'llama-stack-client==1.2.3'", and likewise the line with
\* --no-cache and 'somepkg>=1.0' a NoCache entry.
FlagStaysBeforePackage ==
  \A c \in {<<NoDepsFlag, ClientPkg, "no_deps">>, <<NoCacheFlag, SomePkg, "no_cache">>} :
     line = MkLine(HeadInstall, <<c[1], c[2]>>) /\ emitted # Nothing =>
       /\ emitted.list = c[3]
       /\ LineBreaks(emitted.text) = 0
       /\ Contains(emitted.text, c[1] \o <<" ">> \o c[2])

\* C4: when an install line holds an index-URL flag followed by its URL, the
\* entry holds the flag followed, after one blank, by that URL.
IndexUrlKeepsItsValue ==
  \A flag \in {IndexUrlFlag, ExtraIndexUrlFlag} :
     Accepted /\ Contains(line, <<" ">> \o flag \o <<" ">> \o TorchUrl) =>
       Contains(emitted.text, flag \o <<" ">> \o TorchUrl)

\* "RUN uv pip install"
RunUvPipInstall == <<"R","U","N"," ">> \o HeadInstall

\* "--prerelease=allow"
PrereleaseAllow ==
  <<"-","-","p","r","e","r","e","l","e","a","s","e","=","a","l","l","o","w">>

\* "RUN uv pip install --prerelease=allow --upgrade"
PinnedCommand ==
  RunUvPipInstall \o <<" ">> \o PrereleaseAllow
    \o <<" ","-","-","u","p","g","r","a","d","e">>

\* C6: when stdout holds an install line, the first line of the returned text
\* begins with "RUN uv pip install --prerelease=allow --upgrade", and every
\* line of it that begins with "RUN uv pip install" holds "--prerelease=allow".
PinnedCommandFirst ==
  Returned /\ (\E k \in DOMAIN SplitLines(stdout) : IsInstallLine(SplitLines(stdout)[k])) =>
    LET out == SplitLines(dependencies)
    IN  /\ out # <<>>
        /\ StartsWith(out[1], PinnedCommand)
        /\ \A i \in DOMAIN out :
             StartsWith(out[i], RunUvPipInstall) => Contains(out[i], PrereleaseAllow)

====
